---- MODULE Spec2Model ----
(***************************************************************************)
(* Model of the two attribute macros of src/src/lib.rs, measured_function  *)
(* and measured_async_function: the expansion (argument parsing and label  *)
(* choice) and the code the expansion generates around a function body,    *)
(* executed by several concurrent invocations against a wall clock and a   *)
(* histogram backend.                                                      *)
(***************************************************************************)
EXTENDS Integers, Sequences, FiniteSets

(* ---------------------------- bounds ----------------------------------- *)
\* clock resolution: ticks of the monotonic clock per millisecond
TicksPerMs == 2
\* the clock stops advancing here
MaxTime == 3

\* the invocations of the wrapped function that run concurrently
Invocations == {1, 2}

VARIABLES
    wrapper,   \* result of the macro expansion
    inv,       \* per invocation: position in the generated code and its locals
    samples,   \* what the metrics backend received, in order
    now        \* the monotonic clock (std::time::Instant), in ticks

vars == <<wrapper, inv, samples, now>>

(* ------------------------- macro expansion ----------------------------- *)
None == <<>>
Some(x) == <<x>>

LitStr(s) == [type |-> "LitStr", value |-> s]
Ident(s) == [type |-> "Ident", value |-> s]

\* attribute token streams the macros are applied with
AttrInputs ==
    { <<>>,
      <<LitStr("custom_process_name")>>,
      <<LitStr("")>>,
      <<Ident("custom_process_name")>>,
      <<LitStr("custom_process_name"), LitStr("other")>> }

\* declared identifiers of the annotated functions
FnNames == { Ident("process_data") }

Kinds == {"sync", "async"}

\* impl Parse for MacroArgs, followed by the end-of-input check of
\* parse_macro_input!: Ok(custom_name) or a compile error
ParseMacroArgs(input) ==
    IF Len(input) = 0
    THEN [ok |-> TRUE, custom_name |-> None]
    ELSE IF Head(input).type # "LitStr"
    THEN [ok |-> FALSE, custom_name |-> None]
    ELSE IF Len(Tail(input)) # 0
    THEN [ok |-> FALSE, custom_name |-> None]
    ELSE [ok |-> TRUE, custom_name |-> Some(Head(input).value)]

\* stringify!(#fn_name)
Stringify(ident) == ident.value

EmptyOverrideIgnored(custom_name, fn_name) ==
    IF custom_name # None /\ custom_name[1] # ""
    THEN custom_name[1]
    ELSE Stringify(fn_name)

\* let metric_name = match args.custom_name { Some(name) => name, None => stringify!(fn_name) }
MetricLabel(custom_name, fn_name) ==
    IF custom_name # None
    THEN custom_name[1]
    ELSE Stringify(fn_name)

SwappedHistogramName(kind) ==
    IF kind = "async"
    THEN "function_duration_milliseconds"
    ELSE "async_function_duration_milliseconds"

\* the literal first argument of metrics::histogram! in each expansion
HistogramName(kind) ==
    IF kind = "async"
    THEN "async_function_duration_milliseconds"
    ELSE "function_duration_milliseconds"

NotExpanded == [state |-> "none"]
CompileError == [state |-> "error"]

\* measured_function / measured_async_function applied to a function item
Expand(kind, attr, fn_name) ==
    /\ wrapper = NotExpanded
    /\ LET args == ParseMacroArgs(attr) IN
         wrapper' = IF args.ok
                    THEN [state |-> "expanded", kind |-> kind, attr |-> attr,
                          fn_name |-> fn_name, custom_name |-> args.custom_name,
                          label |-> MetricLabel(args.custom_name, fn_name)]
                    ELSE CompileError
    /\ UNCHANGED <<inv, samples, now>>

Expanded == wrapper.state = "expanded"
IsAsync == Expanded /\ wrapper.kind = "async"
IsSync == Expanded /\ wrapper.kind = "sync"

(* ------------------------- generated code ------------------------------ *)
Ok(v) == [tag |-> "Ok", val |-> v]
Err(e) == [tag |-> "Err", val |-> e]
NoValue == [tag |-> "None", val |-> ""]

\* values a body can evaluate to
BodyValues == { Ok("ok"), Err("e") }
\* ways control leaves a body without panicking
Exits == {"tail", "return", "try"}
PanicPayloads == {"boom"}

\* the locals of one invocation (start, duration), its position, and what
\* the body did: begun (when it began), bodyTime (wall-clock ticks between
\* its begin and its exit), awaited (it suspended at least once), exit,
\* produced (its value); observed is what the caller got back
IdleInv ==
    [pc |-> "idle", start |-> 0, duration |-> 0, begun |-> 0, bodyTime |-> 0,
     awaited |-> FALSE, exit |-> "", produced |-> NoValue, observed |-> NoValue]

Init ==
    /\ wrapper = NotExpanded
    /\ inv = [i \in Invocations |-> IdleInv]
    /\ samples = <<>>
    /\ now = 0

\* the clock advances between any two steps
Tick ==
    /\ now < MaxTime
    /\ now' = now + 1
    /\ UNCHANGED <<wrapper, inv, samples>>

\* calling an async fn only creates its future; nothing of the body runs
Call(i) ==
    /\ IsAsync
    /\ inv[i].pc = "idle"
    /\ inv' = [inv EXCEPT ![i].pc = "created"]
    /\ UNCHANGED <<wrapper, samples, now>>

\* let start = std::time::Instant::now();
StartTimer(i) ==
    /\ \/ IsSync /\ inv[i].pc = "idle"
       \/ IsAsync /\ inv[i].pc = "created"
    /\ inv' = [inv EXCEPT ![i].pc = "timed", ![i].start = now]
    /\ UNCHANGED <<wrapper, samples, now>>

\* (|| #fn_block)()   /   __measured_async.await : the body starts running
BodyBegin(i) ==
    /\ Expanded
    /\ inv[i].pc = "timed"
    /\ inv' = [inv EXCEPT ![i].pc = "body", ![i].begun = now]
    /\ UNCHANGED <<wrapper, samples, now>>

\* the body reaches an await point that is not ready
Suspend(i) ==
    /\ IsAsync
    /\ inv[i].pc = "body"
    /\ inv' = [inv EXCEPT ![i].pc = "suspended", ![i].awaited = TRUE]
    /\ UNCHANGED <<wrapper, samples, now>>

ResumeRestartsTimer(i) ==
    /\ IsAsync
    /\ inv[i].pc = "suspended"
    /\ inv' = [inv EXCEPT ![i].pc = "body", ![i].start = now]
    /\ UNCHANGED <<wrapper, samples, now>>

\* the future is polled again after a wake-up
Resume(i) ==
    /\ IsAsync
    /\ inv[i].pc = "suspended"
    /\ inv' = [inv EXCEPT ![i].pc = "body"]
    /\ UNCHANGED <<wrapper, samples, now>>

SharedStartElapsed(i) == now - inv[1].start

\* start.elapsed()
Elapsed(i) == now - inv[i].start

RoundedMillis(ticks) == (ticks + TicksPerMs - 1) \div TicksPerMs

\* Duration::as_millis() as f64
AsMillis(ticks) == ticks \div TicksPerMs

\* the key and value one record() call hands to the backend; `by` names the
\* invocation that made the call
Sample(i, value) ==
    [name |-> HistogramName(wrapper.kind), function |-> wrapper.label,
     value |-> value, by |-> i]

\* the locals of an invocation that is over no longer exist
Ended(r, pc) == [r EXCEPT !.pc = pc, !.start = 0, !.duration = 0, !.begun = 0]

DropRecords(i) ==
    /\ IsAsync
    /\ inv[i].pc \in {"created", "suspended"}
    /\ inv' = [inv EXCEPT ![i] = Ended([@ EXCEPT !.exit = "cancel"], "dropped")]
    /\ samples' = IF inv[i].pc = "suspended"
                  THEN Append(samples, Sample(i, AsMillis(Elapsed(i))))
                  ELSE samples
    /\ UNCHANGED <<wrapper, now>>

\* the caller drops the future: its locals are dropped, no further code runs
Drop(i) ==
    /\ IsAsync
    /\ inv[i].pc \in {"created", "suspended"}
    /\ inv' = [inv EXCEPT ![i] = Ended([@ EXCEPT !.exit = "cancel"], "dropped")]
    /\ UNCHANGED <<wrapper, samples, now>>

BodyExitInlined(i, how, v) ==
    /\ Expanded
    /\ inv[i].pc = "body"
    /\ how = "try" => v.tag = "Err"
    /\ inv' = [inv EXCEPT ![i] =
                 IF how = "tail"
                 THEN [@ EXCEPT !.pc = "bodydone", !.begun = 0,
                                !.bodyTime = now - inv[i].begun,
                                !.exit = how, !.produced = v]
                 ELSE Ended([@ EXCEPT !.bodyTime = now - inv[i].begun, !.exit = how,
                                      !.produced = v, !.observed = v], "returned")]
    /\ UNCHANGED <<wrapper, samples, now>>

\* the body finishes with value v by its tail expression, a `return` or a `?`:
\* each leaves only the closure / async block, whose value becomes `result`
BodyExit(i, how, v) ==
    /\ Expanded
    /\ inv[i].pc = "body"
    /\ how = "try" => v.tag = "Err"
    /\ inv' = [inv EXCEPT ![i].pc = "bodydone",
                          ![i].begun = 0,
                          ![i].bodyTime = now - inv[i].begun,
                          ![i].exit = how,
                          ![i].produced = v]
    /\ UNCHANGED <<wrapper, samples, now>>

Panic(p) == [tag |-> "Panic", val |-> p]

PanicRecords(i, p) ==
    /\ Expanded
    /\ inv[i].pc = "body"
    /\ inv' = [inv EXCEPT ![i] =
                 Ended([@ EXCEPT !.bodyTime = now - inv[i].begun, !.exit = "panic",
                                 !.produced = Panic(p), !.observed = Panic(p)],
                       "panicked")]
    /\ samples' = Append(samples, Sample(i, AsMillis(Elapsed(i))))
    /\ UNCHANGED <<wrapper, now>>

\* the body panics: the unwind leaves the wrapper without running the rest
BodyPanic(i, p) ==
    /\ Expanded
    /\ inv[i].pc = "body"
    /\ inv' = [inv EXCEPT ![i] =
                 Ended([@ EXCEPT !.bodyTime = now - inv[i].begun, !.exit = "panic",
                                 !.produced = Panic(p), !.observed = Panic(p)],
                       "panicked")]
    /\ UNCHANGED <<wrapper, samples, now>>

\* let duration = start.elapsed().as_millis() as f64;
Measure(i) ==
    /\ Expanded
    /\ inv[i].pc = "bodydone"
    /\ inv' = [inv EXCEPT ![i].pc = "measured",
                          ![i].duration = AsMillis(Elapsed(i))]
    /\ UNCHANGED <<wrapper, samples, now>>

RecordTwice(i) ==
    /\ Expanded
    /\ inv[i].pc = "measured"
    /\ samples' = Append(Append(samples, Sample(i, inv[i].duration)),
                         Sample(i, inv[i].duration))
    /\ inv' = [inv EXCEPT ![i].pc = "recorded"]
    /\ UNCHANGED <<wrapper, now>>

\* metrics::histogram!(NAME, &[("function", LABEL)]).record(duration);
Record(i) ==
    /\ Expanded
    /\ inv[i].pc = "measured"
    /\ samples' = Append(samples, Sample(i, inv[i].duration))
    /\ inv' = [inv EXCEPT ![i].pc = "recorded"]
    /\ UNCHANGED <<wrapper, now>>

\* result   (the tail expression of the generated function)
Return(i) ==
    /\ Expanded
    /\ inv[i].pc = "recorded"
    /\ inv' = [inv EXCEPT ![i] = Ended([@ EXCEPT !.observed = inv[i].produced], "returned")]
    /\ UNCHANGED <<wrapper, samples, now>>

Next ==
    \/ \E k \in Kinds, a \in AttrInputs, f \in FnNames : Expand(k, a, f)
    \/ Tick
    \/ \E i \in Invocations : Call(i)
    \/ \E i \in Invocations : StartTimer(i)
    \/ \E i \in Invocations : BodyBegin(i)
    \/ \E i \in Invocations : Suspend(i)
    \/ \E i \in Invocations : Resume(i)
    \/ \E i \in Invocations : Drop(i)
    \/ \E i \in Invocations, h \in Exits, v \in BodyValues : BodyExit(i, h, v)
    \/ \E i \in Invocations, p \in PanicPayloads : BodyPanic(i, p)
    \/ \E i \in Invocations : Measure(i)
    \/ \E i \in Invocations : Record(i)
    \/ \E i \in Invocations : Return(i)

Spec == Init /\ [][Next]_vars

(* ------------------------------ claims --------------------------------- *)
\* the samples the backend received from invocation i
SamplesBy(i) == { k \in DOMAIN samples : samples[k].by = i }
Count(i) == Cardinality(SamplesBy(i))
Returned(i) == inv[i].pc = "returned"

\* C1: a measured_function invocation whose body completes normally records
\* exactly one sample (never two at any time), under
\* "function_duration_milliseconds" with the custom name if one was supplied
\* and the declared name otherwise, and returns the body's value.
C1_SyncRecordsOnce ==
    IsSync =>
      \A i \in Invocations :
        /\ Count(i) <= 1
        /\ Returned(i) =>
             /\ Count(i) = 1
             /\ inv[i].observed = inv[i].produced
             /\ \A k \in SamplesBy(i) :
                  /\ samples[k].name = "function_duration_milliseconds"
                  /\ samples[k].function =
                       IF wrapper.attr = <<>> THEN wrapper.fn_name.value
                       ELSE wrapper.attr[1].value

C1_Witness ==
    /\ IsSync
    /\ wrapper.attr = <<LitStr("custom_process_name")>>
    /\ \E i \in Invocations :
         /\ Returned(i) /\ Count(i) = 1 /\ inv[i].observed = Ok("ok")
         /\ inv[i].exit = "tail"

\* C2 as stated: a completed measured_async_function invocation records one
\* sample under "async_function_duration_milliseconds", returns the body's
\* result, and the recorded duration is at least the wall-clock time spent in
\* the body.
C2_RecordedAtLeastBodyTime ==
    IsAsync =>
      \A i \in Invocations :
        Returned(i) =>
          /\ Count(i) = 1
          /\ inv[i].observed = inv[i].produced
          /\ \A k \in SamplesBy(i) :
               /\ samples[k].name = "async_function_duration_milliseconds"
               /\ samples[k].value * TicksPerMs >= inv[i].bodyTime

\* C2 amended: the recorded duration is at least the body's wall-clock time,
\* suspensions included, truncated to whole milliseconds.
C2_RecordedAtLeastTruncatedBodyTime ==
    IsAsync =>
      \A i \in Invocations :
        Returned(i) =>
          /\ Count(i) = 1
          /\ inv[i].observed = inv[i].produced
          /\ \A k \in SamplesBy(i) :
               /\ samples[k].name = "async_function_duration_milliseconds"
               /\ samples[k].value >= inv[i].bodyTime \div TicksPerMs

C2_Witness ==
    /\ IsAsync
    /\ \E i \in Invocations :
         /\ Returned(i) /\ inv[i].awaited /\ inv[i].bodyTime >= TicksPerMs
         /\ \E k \in SamplesBy(i) : samples[k].value >= 1

\* C3 as stated: a wrapped callable that fails, by returning an error value or
\* by panicking, records no sample and the caller observes the failure
\* unaltered.
C3_FailureRecordsNothing ==
    \A i \in Invocations :
      (inv[i].pc = "panicked" \/ (Returned(i) /\ inv[i].produced.tag = "Err")) =>
        /\ Count(i) = 0
        /\ inv[i].observed = inv[i].produced

\* C3 amended: a panicking callable records no sample and the caller observes
\* the panic unaltered; a callable that returns an error value has that value
\* returned unaltered and has exactly one sample recorded.
C3_PanicRecordsNothingErrRecordsOne ==
    \A i \in Invocations :
      /\ inv[i].pc = "panicked" =>
           /\ Count(i) = 0
           /\ inv[i].observed = inv[i].produced
           /\ inv[i].observed.tag = "Panic"
      /\ (Returned(i) /\ inv[i].produced.tag = "Err") =>
           /\ Count(i) = 1
           /\ inv[i].observed = inv[i].produced

C3_Witness ==
    \E i, j \in Invocations :
      /\ inv[i].pc = "panicked" /\ inv[i].observed = Panic("boom")
      /\ Returned(j) /\ inv[j].observed = Err("e") /\ Count(j) = 1

\* C4 as stated: the label is the override when it is present and non-empty,
\* and the declared name otherwise (override absent or "").
C4_EmptyOverrideFallsBack ==
    Expanded =>
      wrapper.label =
        IF wrapper.attr # <<>> /\ wrapper.attr[1].value # ""
        THEN wrapper.attr[1].value
        ELSE wrapper.fn_name.value

\* C4 amended: the label is the override whenever an override is present,
\* the empty string included, and the declared name only when it is absent.
C4_OverrideWheneverPresent ==
    Expanded =>
      /\ wrapper.attr = <<>> => wrapper.label = wrapper.fn_name.value
      /\ wrapper.attr # <<>> => wrapper.label = wrapper.attr[1].value

C4_Witness ==
    /\ Expanded
    /\ wrapper.attr = <<LitStr("")>>
    /\ wrapper.label = ""

\* C5: an async invocation whose future is dropped after it started and
\* before its body completed has no sample recorded, then or later.
C5_CancelledRecordsNothing ==
    \A i \in Invocations : inv[i].pc = "dropped" => Count(i) = 0

C5_Witness ==
    \E i, j \in Invocations :
      /\ inv[i].pc = "dropped" /\ inv[i].awaited
      /\ Returned(j) /\ Count(j) = 1

\* C6: every sample of a wrapped callable carries the same key: the metric
\* name fixed by the wrapper kind and the label resolved at expansion,
\* whatever the results and durations of the invocations.
C6_FixedKey ==
    \A k \in DOMAIN samples :
      /\ samples[k].name = IF wrapper.kind = "sync"
                           THEN "function_duration_milliseconds"
                           ELSE "async_function_duration_milliseconds"
      /\ samples[k].function = wrapper.label
      /\ \A l \in DOMAIN samples :
           /\ samples[l].name = samples[k].name
           /\ samples[l].function = samples[k].function

C6_Witness ==
    \E k, l \in DOMAIN samples :
      /\ samples[k].by # samples[l].by
      /\ samples[k].value # samples[l].value
      /\ inv[samples[k].by].produced # inv[samples[l].by].produced

\* C7: measured_async_function records its samples under the metric named
\* function_duration_seconds with a "function" label.
C7_DocumentedMetricName ==
    IsAsync =>
      \A k \in DOMAIN samples : samples[k].name = "function_duration_seconds"

\* C8: the start timestamp is taken before the body begins, the sample is
\* submitted after the body completed and before the wrapper returns, and its
\* value is the elapsed time since the start timestamp truncated down to
\* whole milliseconds.
C8_Ordering ==
    \A i \in Invocations :
      /\ inv[i].pc \in {"body", "suspended"} => inv[i].start <= inv[i].begun
      /\ Returned(i) => Count(i) = 1
      /\ inv[i].pc \in {"idle", "created", "timed", "body", "suspended", "bodydone",
                        "measured"} => Count(i) = 0

C8_Step ==
    \A i \in Invocations :
      /\ (inv[i].pc # "body" /\ inv'[i].pc = "body") =>
           inv[i].pc \in {"timed", "suspended"}
      /\ (inv[i].pc # "measured" /\ inv'[i].pc = "measured") =>
           /\ inv[i].pc = "bodydone"
           /\ inv'[i].duration * TicksPerMs <= now - inv[i].start
           /\ now - inv[i].start < (inv'[i].duration + 1) * TicksPerMs
           /\ now - inv[i].start < TicksPerMs => inv'[i].duration = 0
      /\ (inv[i].pc # "recorded" /\ inv'[i].pc = "recorded") =>
           /\ inv[i].pc = "measured"
           /\ samples' = Append(samples, samples'[Len(samples')])
           /\ samples'[Len(samples')].by = i
           /\ samples'[Len(samples')].value = inv[i].duration

C8_TruncatedElapsed == []C8_Ordering /\ [][C8_Step]_vars

C8_Witness ==
    \E i \in Invocations :
      /\ Returned(i)
      /\ inv[i].bodyTime >= 1 /\ inv[i].bodyTime < TicksPerMs
      /\ \E k \in SamplesBy(i) : samples[k].value = 0

\* C9: invocations share no mutable state: a step changes the locals of one
\* invocation only, an invocation is suspended only where its body suspends,
\* each invocation that completes records exactly one sample, and the sample
\* is computed from that invocation's own start timestamp.
C9_OneSampleEach ==
    \A i \in Invocations : Returned(i) => Count(i) = 1

C9_Step ==
    \A i \in Invocations :
      /\ \A j \in Invocations :
           (i # j /\ inv'[i] # inv[i]) => inv'[j] = inv[j]
      /\ (inv[i].pc # "suspended" /\ inv'[i].pc = "suspended") => inv[i].pc = "body"
      /\ (inv[i].pc = "bodydone" /\ inv'[i].pc = "measured") =>
           inv'[i].duration = (now - inv[i].start) \div TicksPerMs
      /\ (inv[i].pc = "measured" /\ inv'[i].pc = "recorded") =>
           /\ Len(samples') = Len(samples) + 1
           /\ samples'[Len(samples')].value = inv[i].duration

C9_NoSharedState == []C9_OneSampleEach /\ [][C9_Step]_vars

C9_Witness ==
    /\ IsAsync
    /\ inv[1].pc = "suspended"
    /\ inv[2].pc = "measured"
    /\ inv[2].start > inv[1].start
    /\ inv[2].duration >= 1

\* C10: a body left early by `return` or `?` leaves only the inner closure or
\* async block: the wrapper still records exactly one sample and then returns
\* the value of the early exit.
C10_EarlyExitStillRecords ==
    \A i \in Invocations :
      /\ (inv[i].exit \in {"return", "try"} /\ inv[i].pc \in {"recorded", "returned"}) =>
           Count(i) = 1
      /\ (inv[i].exit \in {"return", "try"} /\ Returned(i)) =>
           inv[i].observed = inv[i].produced
      /\ (inv[i].exit \in {"return", "try"}) =>
           inv[i].pc \in {"bodydone", "measured", "recorded", "returned"}
      /\ Returned(i) => Count(i) >= 1

C10_Witness ==
    \E i, j \in Invocations :
      /\ Returned(i) /\ inv[i].exit = "try" /\ inv[i].observed = Err("e") /\ Count(i) = 1
      /\ Returned(j) /\ inv[j].exit = "return" /\ inv[j].observed = Ok("ok") /\ Count(j) = 1

====
